---- MODULE Spec2Model ----
(***************************************************************************)
(* The plant pipeline of llamafarm-cli (src/commands/plant.ts): one        *)
(* invocation of plantCommand(model, options), one action per awaited call *)
(* or handler.  The log records, in order, every externally visible effect *)
(* of the invocation (spinner labels, file-system calls, runtime calls,    *)
(* port probes, stream events, prints, exit).                              *)
(***************************************************************************)
EXTENDS Integers, Sequences, FiniteSets, TLC

VARIABLES
  pc,          \* position in plantCommand
  options,     \* the CLI-level options (PlantOptions)
  yamlFile,    \* what options.config points at: NoFile, BadFile or a document
  envMock,     \* process.env.LLAMAFARM_MOCK ("" = not set)
  config,      \* the merged configuration used by every stage
  workspace,   \* entries present in .llamafarm/<model>
  port,        \* the resolved UI port (const port, line 195)
  manifest,    \* the record written to manifest.json
  archive,     \* state and entries of llamafarm-<model>-<device>.tar.gz in cwd
  server,      \* the download server: port, listening state, timer, downloads
  error,       \* class of the fatal error raised in this invocation, or "none"
  exitCode,    \* -1 while the process has not exited
  log          \* ordered effects of this invocation

vars == <<pc, options, yamlFile, envMock, config, workspace, port, manifest,
          archive, server, error, exitCode, log>>

----------------------------------------------------------------------------
(* Bounds *)

\* getPort() answers one of NumFreePorts free ports
NumFreePorts == 2
\* download requests served while the server listens
MaxDownloads == 2

----------------------------------------------------------------------------
(* JavaScript values, as far as the option `port` and `mock` need them *)

JsUndef == [t |-> "undefined", n |-> 0, s |-> <<>>]
JsNaN == [t |-> "NaN", n |-> 0, s |-> <<>>]
JsNum(n) == [t |-> "number", n |-> n, s |-> <<>>]
JsStr(s) == [t |-> "string", n |-> 0, s |-> s]
JsBool(b) == [t |-> "boolean", n |-> IF b THEN 1 ELSE 0, s |-> <<>>]

\* JavaScript truthiness (the operand of || and of if)
Truthy(v) ==
  CASE v.t = "undefined" -> FALSE
    [] v.t = "NaN" -> FALSE
    [] v.t = "number" -> v.n # 0
    [] v.t = "boolean" -> v.n = 1
    [] v.t = "string" -> Len(v.s) > 0

Digits == {"0", "1", "2", "3", "4", "5", "6", "7", "8", "9"}

DigitVal(c) ==
  CASE c = "0" -> 0 [] c = "1" -> 1 [] c = "2" -> 2 [] c = "3" -> 3
    [] c = "4" -> 4 [] c = "5" -> 5 [] c = "6" -> 6 [] c = "7" -> 7
    [] c = "8" -> 8 [] c = "9" -> 9

\* number of leading decimal digits of s
RECURSIVE LeadingDigits(_)
LeadingDigits(s) ==
  IF s = <<>> \/ Head(s) \notin Digits THEN 0 ELSE 1 + LeadingDigits(Tail(s))

RECURSIVE DecimalValue(_, _)
DecimalValue(s, k) ==
  IF k = 0 THEN 0 ELSE 10 * DecimalValue(s, k - 1) + DigitVal(s[k])

\* parseInt(s) for unsigned decimal text: the value of the leading digits,
\* NaN when there is none
parseInt(s) ==
  IF LeadingDigits(s) = 0 THEN JsNaN
  ELSE JsNum(DecimalValue(s, LeadingDigits(s)))

----------------------------------------------------------------------------
(* Inputs *)

Absent == "<absent>"

Model == "llama2"

\* --port values given on the command line (commander hands over text)
CliPorts == {JsUndef, JsStr(<<"8", "0">>)}

\* deployment.port values of a configuration file
YamlPorts == {JsUndef, JsNum(90), JsStr(<<"a", "u", "t", "o">>)}

CliOptions ==
  [device : {"mac"}, agent : {"farm-assistant"}, quantize : {"q4_0"},
   rag : {"enabled", "disabled"}, database : {"vector", "sqlite"},
   port : CliPorts, mock : {JsUndef, JsBool(TRUE)},
   config : {Absent, "cfg.yaml"}]

NoFile == [kind |-> "none", rag |-> Absent, database |-> Absent,
           port |-> JsUndef, mock |-> JsUndef]

BadFile == [kind |-> "bad", rag |-> Absent, database |-> Absent,
            port |-> JsUndef, mock |-> JsUndef]

\* the options a readable configuration file may set
YamlDocs ==
  [kind : {"doc"}, rag : {Absent, "enabled", "disabled"},
   database : {Absent, "vector", "sqlite"}, port : YamlPorts,
   mock : {JsUndef, JsBool(TRUE), JsBool(FALSE)}]

EnvValues == {"", "true", "1"}

FreePorts == 3000 .. (3000 + NumFreePorts - 1)

----------------------------------------------------------------------------
(* The log *)

Ev(k, a) == [k |-> k, a |-> a]

Has(k, a) == \E i \in 1 .. Len(log) : log[i] = Ev(k, a)

HasKind(k) == \E i \in 1 .. Len(log) : log[i].k = k

\* some event e1 occurs, and occurs before every e2
Precedes(e1, e2) ==
  \A j \in 1 .. Len(log) :
    log[j] = e2 => \E i \in 1 .. (j - 1) : log[i] = e1

\* effects on the world outside the console
SideEffectKinds ==
  {"mkdir", "write", "chmod", "rt", "probe", "open", "finalize", "listen"}

----------------------------------------------------------------------------
(* Configuration *)

\* { ...options, ...yamlConfig }: every key the document sets replaces the
\* option of the same name
Merge(o, y) ==
  [o EXCEPT !.rag = IF y.rag # Absent THEN y.rag ELSE @,
            !.database = IF y.database # Absent THEN y.database ELSE @,
            !.port = IF y.port # JsUndef THEN y.port ELSE @,
            !.mock = IF y.mock # JsUndef THEN y.mock ELSE @]

\* variant: the environment variable is not consulted
IsMock_FlagOnly == Truthy(config.mock)

\* config.mock || process.env.LLAMAFARM_MOCK === 'true'
IsMock == Truthy(config.mock) \/ envMock = "true"

\* config.database === 'vector' || config.rag === 'enabled'
VectorEnabled == config.database = "vector" \/ config.rag = "enabled"

\* config.rag === 'enabled'
RagEnabled == config.rag = "enabled"

NoManifest == [written |-> FALSE, rag |-> FALSE, vectorDb |-> FALSE,
               port |-> JsUndef]

TypeOK ==
  /\ options \in CliOptions
  /\ yamlFile \in {NoFile, BadFile} \cup YamlDocs
  /\ envMock \in EnvValues
  /\ exitCode \in {-1, 0, 1}
  /\ server.downloads \in 0 .. MaxDownloads

Init ==
  /\ pc = "start"
  /\ options \in CliOptions
  /\ yamlFile \in {NoFile, BadFile} \cup YamlDocs
  /\ (options.config = Absent) <=> (yamlFile = NoFile)
  /\ envMock \in EnvValues
  /\ config = options
  /\ workspace = {}
  /\ port = JsUndef
  /\ manifest = NoManifest
  /\ archive = [state |-> "absent", entries |-> {}]
  /\ server = [state |-> "none", port |-> 0, timer |-> "unset", downloads |-> 0]
  /\ error = "none"
  /\ exitCode = -1
  /\ log = <<>>

----------------------------------------------------------------------------
(* Events that precede the awaited call of each position, and the position *)
(* that follows a stage                                                    *)

PreEvents(p) ==
  CASE p = "prepare" -> <<Ev("start", "field")>>
    [] p = "mockWrite" -> <<Ev("succeed", "model-mock")>>
    [] p = "agentConfig" -> <<Ev("start", "agent")>>
    [] p = "vectorConfig" -> <<Ev("start", "vector")>>
    [] p = "ragConfig" -> <<Ev("start", "rag")>>
    [] p = "uiPort" -> <<Ev("start", "ui")>>
    [] p = "manifest" -> <<Ev("start", "bundle")>>
    [] p = "dockerfile" -> <<Ev("start", "package")>>
    [] OTHER -> <<>>

AfterVector == IF RagEnabled THEN "ragConfig" ELSE "uiPort"

AfterAgent == IF VectorEnabled THEN "vectorConfig" ELSE AfterVector

\* positions whose awaited call is a file-system call or a port probe, inside try
ThrowingPcs ==
  {"prepare", "mockWrite", "exportModel", "agentConfig", "agentServer",
   "vectorConfig", "chroma", "ragConfig", "uiWrite", "manifest",
   "startScript", "startChmod", "dockerfile", "buildScript", "buildChmod",
   "serve"}

\* typeof config.port === 'string' ? ... : (config.port || await getPort())
NeedsProbe == config.port.t # "string" /\ ~Truthy(config.port)

----------------------------------------------------------------------------
(* plantCommand, lines 54-59 *)

\* no --config, or loadYamlConfig resolves
LoadConfig ==
  /\ pc = "start"
  /\ yamlFile.kind # "bad"
  /\ config' = IF options.config # Absent THEN Merge(options, yamlFile) ELSE options
  /\ pc' = "prepare"
  /\ UNCHANGED <<options, yamlFile, envMock, workspace, port, manifest,
                 archive, server, error, exitCode, log>>

\* variant: the configuration is loaded after the working directory is made
LoadConfigThrows_AfterEnsureDir ==
  /\ pc = "start"
  /\ options.config # Absent
  /\ yamlFile.kind = "bad"
  /\ workspace' = workspace \cup {"."}
  /\ log' = log \o <<Ev("start", "field"), Ev("mkdir", "."), Ev("succeed", "field")>>
  /\ error' = "ConfigError"
  /\ pc' = "rejected"
  /\ UNCHANGED <<options, yamlFile, envMock, config, port, manifest, archive,
                 server, exitCode>>

\* loadYamlConfig rejects: the await at line 57 is outside the try block, so
\* plantCommand rejects; nothing is printed and process.exit is not called
LoadConfigThrows ==
  /\ pc = "start"
  /\ options.config # Absent
  /\ yamlFile.kind = "bad"
  /\ error' = "ConfigError"
  /\ pc' = "rejected"
  /\ UNCHANGED <<options, yamlFile, envMock, config, workspace, port, manifest,
                 archive, server, exitCode, log>>

----------------------------------------------------------------------------
(* Step 1 and 2, lines 64-138 *)

PrepareField ==
  /\ pc = "prepare"
  /\ workspace' = workspace \cup {"."}
  /\ log' = log \o PreEvents(pc)
              \o <<Ev("mkdir", "."), Ev("succeed", "field"), Ev("start", "model")>>
  /\ pc' = IF IsMock THEN "mockWrite" ELSE "checkInstalled"
  /\ UNCHANGED <<options, yamlFile, envMock, config, port, manifest, archive,
                 server, error, exitCode>>

\* variant: the mock branch falls through to the runtime checks
MockModel_FallsThrough ==
  /\ pc = "mockWrite"
  /\ workspace' = workspace \cup {"model.gguf"}
  /\ log' = log \o PreEvents(pc) \o <<Ev("write", "model.gguf")>>
  /\ pc' = "checkInstalled"
  /\ UNCHANGED <<options, yamlFile, envMock, config, port, manifest, archive,
                 server, error, exitCode>>

\* mock branch, lines 74-80: success is reported, then model.gguf is written
MockModel ==
  /\ pc = "mockWrite"
  /\ workspace' = workspace \cup {"model.gguf"}
  /\ log' = log \o PreEvents(pc) \o <<Ev("write", "model.gguf")>>
  /\ pc' = "agentConfig"
  /\ UNCHANGED <<options, yamlFile, envMock, config, port, manifest, archive,
                 server, error, exitCode>>

\* checkOllamaInstalled() answers true
CheckInstalledOk ==
  /\ pc = "checkInstalled"
  /\ log' = Append(log, Ev("rt", "which"))
  /\ pc' = "checkRunning"
  /\ UNCHANGED <<options, yamlFile, envMock, config, workspace, port, manifest,
                 archive, server, error, exitCode>>

\* variant: the guidance is printed but the process is not ended
CheckInstalledFail_NoExit ==
  /\ pc = "checkInstalled"
  /\ log' = log \o <<Ev("rt", "which"), Ev("rtfail", "which"),
                     Ev("fail", "Ollama not found"), Ev("print", "error")>>
  /\ error' = "EnvironmentError"
  /\ pc' = "checkRunning"
  /\ UNCHANGED <<options, yamlFile, envMock, config, workspace, port, manifest,
                 archive, server, exitCode>>

\* checkOllamaInstalled() answers false, lines 84-94
CheckInstalledFail ==
  /\ pc = "checkInstalled"
  /\ log' = log \o <<Ev("rt", "which"), Ev("rtfail", "which"),
                     Ev("fail", "Ollama not found"),
                     Ev("print", "error"), Ev("exit", "1")>>
  /\ error' = "EnvironmentError"
  /\ exitCode' = 1
  /\ pc' = "exited"
  /\ UNCHANGED <<options, yamlFile, envMock, config, workspace, port, manifest,
                 archive, server>>

\* checkOllamaRunning() answers true
CheckRunningOk ==
  /\ pc = "checkRunning"
  /\ log' = Append(log, Ev("rt", "list"))
  /\ pc' = "show"
  /\ UNCHANGED <<options, yamlFile, envMock, config, workspace, port, manifest,
                 archive, server, error, exitCode>>

\* checkOllamaRunning() answers false, lines 98-107
CheckRunningFail ==
  /\ pc = "checkRunning"
  /\ log' = log \o <<Ev("rt", "list"), Ev("rtfail", "list"),
                     Ev("fail", "Ollama service not running"),
                     Ev("print", "error"), Ev("exit", "1")>>
  /\ error' = "EnvironmentError"
  /\ exitCode' = 1
  /\ pc' = "exited"
  /\ UNCHANGED <<options, yamlFile, envMock, config, workspace, port, manifest,
                 archive, server>>

\* ollama.show resolves, lines 114-115
ShowFound ==
  /\ pc = "show"
  /\ log' = log \o <<Ev("rt", "show"), Ev("succeed", "model-found")>>
  /\ pc' = "exportModel"
  /\ UNCHANGED <<options, yamlFile, envMock, config, workspace, port, manifest,
                 archive, server, error, exitCode>>

\* ollama.show rejects, lines 116-118
ShowMissing ==
  /\ pc = "show"
  /\ log' = log \o <<Ev("rt", "show"), Ev("rtfail", "show")>>
  /\ pc' = "pull"
  /\ UNCHANGED <<options, yamlFile, envMock, config, workspace, port, manifest,
                 archive, server, error, exitCode>>

\* ollama.pull resolves, lines 120-121
PullOk ==
  /\ pc = "pull"
  /\ log' = log \o <<Ev("rt", "pull"), Ev("succeed", "model-downloaded")>>
  /\ pc' = "exportModel"
  /\ UNCHANGED <<options, yamlFile, envMock, config, workspace, port, manifest,
                 archive, server, error, exitCode>>

\* variant: a rejected pull is reported and provisioning carries on
PullFail_Continues ==
  /\ pc = "pull"
  /\ log' = log \o <<Ev("rt", "pull"), Ev("rtfail", "pull"),
                     Ev("fail", "Failed to download model"),
                     Ev("print", "error")>>
  /\ error' = "ModelResolutionError"
  /\ exitCode' = exitCode
  /\ pc' = "exportModel"
  /\ UNCHANGED <<options, yamlFile, envMock, config, workspace, port, manifest,
                 archive, server>>

\* ollama.pull rejects, lines 122-131
PullFail ==
  /\ pc = "pull"
  /\ log' = log \o <<Ev("rt", "pull"), Ev("rtfail", "pull"),
                     Ev("fail", "Failed to download model"),
                     Ev("print", "error"), Ev("exit", "1")>>
  /\ error' = "ModelResolutionError"
  /\ exitCode' = 1
  /\ pc' = "exited"
  /\ UNCHANGED <<options, yamlFile, envMock, config, workspace, port, manifest,
                 archive, server>>

\* variant: the model is reported planted without writing model.gguf
ExportModel_ReportsOnly ==
  /\ pc = "exportModel"
  /\ workspace' = workspace
  /\ log' = log \o <<Ev("succeed", "model")>>
  /\ pc' = "agentConfig"
  /\ UNCHANGED <<options, yamlFile, envMock, config, port, manifest, archive,
                 server, error, exitCode>>

\* lines 135-137
ExportModel ==
  /\ pc = "exportModel"
  /\ workspace' = workspace \cup {"model.gguf"}
  /\ log' = log \o <<Ev("write", "model.gguf"), Ev("succeed", "model")>>
  /\ pc' = "agentConfig"
  /\ UNCHANGED <<options, yamlFile, envMock, config, port, manifest, archive,
                 server, error, exitCode>>

----------------------------------------------------------------------------
(* Steps 3 to 8, lines 140-304 *)

\* lines 141-151
WriteAgentConfig ==
  /\ pc = "agentConfig"
  /\ workspace' = workspace \cup {"agent.config.json"}
  /\ log' = log \o PreEvents(pc) \o <<Ev("write", "agent.config.json")>>
  /\ pc' = "agentServer"
  /\ UNCHANGED <<options, yamlFile, envMock, config, port, manifest, archive,
                 server, error, exitCode>>

\* lines 154-156
WriteAgentServer ==
  /\ pc = "agentServer"
  /\ workspace' = workspace \cup {"agent-server.js"}
  /\ log' = log \o PreEvents(pc) \o <<Ev("write", "agent-server.js")>> \o <<Ev("succeed", "agent")>>
  /\ pc' = AfterAgent
  /\ UNCHANGED <<options, yamlFile, envMock, config, port, manifest, archive,
                 server, error, exitCode>>

\* lines 159-169, taken when VectorEnabled
WriteVectorConfig ==
  /\ pc = "vectorConfig"
  /\ workspace' = workspace \cup {"vector.config.json"}
  /\ log' = log \o PreEvents(pc) \o <<Ev("write", "vector.config.json")>>
  /\ pc' = "chroma"
  /\ UNCHANGED <<options, yamlFile, envMock, config, port, manifest, archive,
                 server, error, exitCode>>

\* lines 172-175
EnsureChromaDir ==
  /\ pc = "chroma"
  /\ workspace' = workspace \cup {"chroma_db"}
  /\ log' = log \o PreEvents(pc) \o <<Ev("mkdir", "chroma_db")>> \o <<Ev("succeed", "vector")>>
  /\ pc' = AfterVector
  /\ UNCHANGED <<options, yamlFile, envMock, config, port, manifest, archive,
                 server, error, exitCode>>

\* lines 179-190, taken when RagEnabled
WriteRagConfig ==
  /\ pc = "ragConfig"
  /\ workspace' = workspace \cup {"rag.config.json"}
  /\ log' = log \o PreEvents(pc) \o <<Ev("write", "rag.config.json")>> \o <<Ev("succeed", "rag")>>
  /\ pc' = "uiPort"
  /\ UNCHANGED <<options, yamlFile, envMock, config, port, manifest, archive,
                 server, error, exitCode>>

\* line 195, the branches that do not call getPort()
ResolvePort ==
  /\ pc = "uiPort"
  /\ ~NeedsProbe
  /\ port' = IF config.port.t = "string" THEN parseInt(config.port.s) ELSE config.port
  /\ log' = log \o PreEvents(pc)
  /\ pc' = "uiWrite"
  /\ UNCHANGED <<options, yamlFile, envMock, config, workspace, manifest,
                 archive, server, error, exitCode>>

\* line 195, config.port || await getPort() with config.port falsy
ProbePort ==
  /\ pc = "uiPort"
  /\ NeedsProbe
  /\ \E p \in FreePorts : port' = JsNum(p)
  /\ log' = log \o PreEvents(pc) \o <<Ev("probe", "ui")>>
  /\ pc' = "uiWrite"
  /\ UNCHANGED <<options, yamlFile, envMock, config, workspace, manifest,
                 archive, server, error, exitCode>>

\* lines 196-198
WriteUi ==
  /\ pc = "uiWrite"
  /\ workspace' = workspace \cup {"index.html"}
  /\ log' = log \o PreEvents(pc) \o <<Ev("write", "index.html")>> \o <<Ev("succeed", "ui")>>
  /\ pc' = "manifest"
  /\ UNCHANGED <<options, yamlFile, envMock, config, port, manifest, archive,
                 server, error, exitCode>>

\* lines 201-222
WriteManifest ==
  /\ pc = "manifest"
  /\ manifest' = [written |-> TRUE,
                  rag |-> (config.rag = "enabled"),
                  vectorDb |-> (config.database = "vector"),
                  port |-> port]
  /\ workspace' = workspace \cup {"manifest.json"}
  /\ log' = log \o PreEvents(pc) \o <<Ev("write", "manifest.json")>>
  /\ pc' = "startScript"
  /\ UNCHANGED <<options, yamlFile, envMock, config, port, archive, server,
                 error, exitCode>>

\* lines 225-257
WriteStartScript ==
  /\ pc = "startScript"
  /\ workspace' = workspace \cup {"start.sh"}
  /\ log' = log \o PreEvents(pc) \o <<Ev("write", "start.sh")>>
  /\ pc' = "startChmod"
  /\ UNCHANGED <<options, yamlFile, envMock, config, port, manifest, archive,
                 server, error, exitCode>>

\* variant: the archive is created before the Dockerfile and build.sh exist
ChmodStartScript_ThenArchive ==
  /\ pc = "startChmod"
  /\ log' = log \o <<Ev("chmod", "start.sh"), Ev("succeed", "bundle")>>
  /\ pc' = "archive"
  /\ UNCHANGED <<options, yamlFile, envMock, config, workspace, port, manifest,
                 archive, server, error, exitCode>>

\* lines 258-260
ChmodStartScript ==
  /\ pc = "startChmod"
  /\ log' = log \o <<Ev("chmod", "start.sh")>> \o <<Ev("succeed", "bundle")>>
  /\ pc' = "dockerfile"
  /\ UNCHANGED <<options, yamlFile, envMock, config, workspace, port, manifest,
                 archive, server, error, exitCode>>

\* lines 263-267
WriteDockerfile ==
  /\ pc = "dockerfile"
  /\ workspace' = workspace \cup {"Dockerfile"}
  /\ log' = log \o PreEvents(pc) \o <<Ev("write", "Dockerfile")>>
  /\ pc' = "buildScript"
  /\ UNCHANGED <<options, yamlFile, envMock, config, port, manifest, archive,
                 server, error, exitCode>>

\* lines 270-303
WriteBuildScript ==
  /\ pc = "buildScript"
  /\ workspace' = workspace \cup {"build.sh"}
  /\ log' = log \o PreEvents(pc) \o <<Ev("write", "build.sh")>>
  /\ pc' = "buildChmod"
  /\ UNCHANGED <<options, yamlFile, envMock, config, port, manifest, archive,
                 server, error, exitCode>>

\* line 304
ChmodBuildScript ==
  /\ pc = "buildChmod"
  /\ log' = log \o <<Ev("chmod", "build.sh")>>
  /\ pc' = "archive"
  /\ UNCHANGED <<options, yamlFile, envMock, config, workspace, port, manifest,
                 archive, server, error, exitCode>>

----------------------------------------------------------------------------
(* Archive, lines 306-320 *)

\* variant: the entries are stored under a directory named after the model
DestPath_DirName == Model

\* the second argument of archive.directory(workDir, false): the archive root
DestPath == ""

\* archive.directory(dirpath, destpath): every entry of the directory, stored
\* under destpath
directory(entries, destpath) == {[dir |-> destpath, name |-> f] : f \in entries}

\* the top-level name an archive entry has once extracted
TopLevelOf(e) == IF e.dir = "" THEN e.name ELSE e.dir

\* variant: the promise is resolved when finalize() returns
CreateArchive_ResolvesOnFinalize ==
  /\ pc = "archive"
  /\ archive' = [state |-> "writing",
                 entries |-> directory(workspace \ {"."}, DestPath)]
  /\ log' = log \o <<Ev("open", "output"), Ev("finalize", "archive"),
                     Ev("succeed", "package")>>
  /\ pc' = "serve"
  /\ UNCHANGED <<options, yamlFile, envMock, config, workspace, port, manifest,
                 server, error, exitCode>>

\* createWriteStream, pipe, directory(workDir, false), finalize(): the calls
\* return while the stream is still being written
CreateArchive ==
  /\ pc = "archive"
  /\ archive' = [state |-> "writing",
                 entries |-> directory(workspace \ {"."}, DestPath)]
  /\ log' = log \o <<Ev("open", "output"), Ev("finalize", "archive")>>
  /\ pc' = "awaitClose"
  /\ UNCHANGED <<options, yamlFile, envMock, config, workspace, port, manifest,
                 server, error, exitCode>>

\* output's 'close' event: resolve(), then spinner.succeed (line 320)
OutputClose ==
  /\ pc = "awaitClose"
  /\ archive' = [archive EXCEPT !.state = "complete"]
  /\ log' = log \o <<Ev("close", "output"), Ev("succeed", "package")>>
  /\ pc' = "serve"
  /\ UNCHANGED <<options, yamlFile, envMock, config, workspace, port, manifest,
                 server, error, exitCode>>

\* archive's 'error' event: reject, control passes to the catch block
ArchiveError ==
  /\ pc = "awaitClose"
  /\ archive' = [archive EXCEPT !.state = "partial"]
  /\ error' = "PackagingError"
  /\ log' = Append(log, Ev("raise", "archive"))
  /\ pc' = "catch"
  /\ UNCHANGED <<options, yamlFile, envMock, config, workspace, port, manifest,
                 server, exitCode>>

\* output's 'error' event has no listener in plantCommand.  Outcome 1: the
\* pipe's own listener absorbs it and the stream then emits 'close', so the
\* promise resolves as for a complete archive
OutputErrorThenClose ==
  /\ pc = "awaitClose"
  /\ archive' = [archive EXCEPT !.state = "partial"]
  /\ error' = "PackagingError"
  /\ log' = log \o <<Ev("raise", "output"), Ev("close", "output"),
                     Ev("succeed", "package")>>
  /\ pc' = "serve"
  /\ UNCHANGED <<options, yamlFile, envMock, config, workspace, port, manifest,
                 server, exitCode>>

\* Outcome 2: the unhandled 'error' event ends the process outside the catch
\* block, with the runtime's exit status for an uncaught exception
OutputErrorUncaught ==
  /\ pc = "awaitClose"
  /\ archive' = [archive EXCEPT !.state = "partial"]
  /\ error' = "PackagingError"
  /\ log' = log \o <<Ev("raise", "output"), Ev("uncaught", "output")>>
  /\ exitCode' = 1
  /\ pc' = "exited"
  /\ UNCHANGED <<options, yamlFile, envMock, config, workspace, port, manifest,
                 server>>

----------------------------------------------------------------------------
(* Download server, lines 322-342 *)

StartDownloadServer ==
  /\ pc = "serve"
  /\ \E p \in FreePorts :
       server' = [state |-> "listening", port |-> p, timer |-> "armed",
                  downloads |-> 0]
  /\ log' = log \o <<Ev("probe", "download"), Ev("listen", "download"),
                     Ev("print", "url")>>
  /\ pc' = "done"
  /\ UNCHANGED <<options, yamlFile, envMock, config, workspace, port, manifest,
                 archive, error, exitCode>>

\* GET /download/:version/:file, line 330-332
Download ==
  /\ server.state = "listening"
  /\ server.downloads < MaxDownloads
  /\ server' = [server EXCEPT !.downloads = @ + 1]
  /\ UNCHANGED <<pc, options, yamlFile, envMock, config, workspace, port,
                 manifest, archive, error, exitCode, log>>

\* the 5-minute timer, lines 340-342: server.close(); nothing is left pending
TimerFires ==
  /\ pc = "done"
  /\ server.timer = "armed"
  /\ server' = [server EXCEPT !.state = "closed", !.timer = "fired"]
  /\ log' = Append(log, Ev("shutdown", "download"))
  /\ exitCode' = 0
  /\ pc' = "exited"
  /\ UNCHANGED <<options, yamlFile, envMock, config, workspace, port, manifest,
                 archive, error>>

----------------------------------------------------------------------------
(* Failure, lines 344-348 *)

\* the awaited file-system call or port probe of the current position rejects
Throw ==
  /\ pc \in ThrowingPcs \/ (pc = "uiPort" /\ NeedsProbe)
  /\ error' = "IOError"
  /\ log' = log \o PreEvents(pc) \o <<Ev("raise", pc)>>
  /\ pc' = "catch"
  /\ UNCHANGED <<options, yamlFile, envMock, config, workspace, port, manifest,
                 archive, server, exitCode>>

\* catch (error): spinner.fail, console.error, process.exit(1)
Catch ==
  /\ pc = "catch"
  /\ log' = log \o <<Ev("fail", "Planting failed"), Ev("print", "error"),
                     Ev("exit", "1")>>
  /\ exitCode' = 1
  /\ pc' = "exited"
  /\ UNCHANGED <<options, yamlFile, envMock, config, workspace, port, manifest,
                 archive, server, error>>

----------------------------------------------------------------------------

\* the steps of the single thread of control and of the timer
Step ==
  \/ LoadConfig \/ LoadConfigThrows \/ PrepareField \/ MockModel
  \/ CheckInstalledOk \/ CheckInstalledFail \/ CheckRunningOk \/ CheckRunningFail
  \/ ShowFound \/ ShowMissing \/ PullOk \/ PullFail \/ ExportModel
  \/ WriteAgentConfig \/ WriteAgentServer \/ WriteVectorConfig \/ EnsureChromaDir
  \/ WriteRagConfig \/ ResolvePort \/ ProbePort \/ WriteUi \/ WriteManifest
  \/ WriteStartScript \/ ChmodStartScript \/ WriteDockerfile \/ WriteBuildScript
  \/ ChmodBuildScript \/ CreateArchive \/ OutputClose \/ StartDownloadServer
  \/ TimerFires \/ Catch

\* what the environment may do to the invocation
Fault == Throw \/ ArchiveError \/ OutputErrorThenClose \/ OutputErrorUncaught

Next == Step \/ Fault \/ Download

Spec == Init /\ [][Next]_vars

\* every awaited call settles and the timer fires; faults and requests are
\* not obliged to happen
FairSpec == Spec /\ WF_vars(Step)

----------------------------------------------------------------------------
(* Properties *)

\* no effect outside the console is recorded
NoSideEffect == \A i \in 1 .. Len(log) : log[i].k \notin SideEffectKinds

\* the runtime answered that it is missing or not reachable
RuntimeUnavailable == Has("rtfail", "which") \/ Has("rtfail", "list")

\* a fatal error was raised at log position i
FatalAt(i) ==
  \/ log[i].k = "raise"
  \/ log[i] \in {Ev("rtfail", "which"), Ev("rtfail", "list"), Ev("rtfail", "pull")}

\* the packaging stage was reported successful on a complete archive
Packaged == Has("succeed", "package") /\ archive.state = "complete"

\* a file-system call, a port probe or an archive stream failed
Faulted == error \in {"IOError", "PackagingError"}

\* C1: once the configuration is resolved from a readable file, every option
\* given both on the command line and in the file has the command-line value.
C1_CliOverridesFile ==
  (pc # "start" /\ yamlFile.kind = "doc") =>
    /\ (options.port # JsUndef /\ yamlFile.port # JsUndef) => config.port = options.port
    /\ (options.mock # JsUndef /\ yamlFile.mock # JsUndef) => config.mock = options.mock

\* C2: once the manifest is written, features.rag is true exactly when
\* rag.config.json was written by this invocation, and features.vectorDb is
\* true exactly when vector.config.json was written by this invocation.
C2_ManifestMirrorsWrites ==
  manifest.written =>
    /\ manifest.rag <=> Has("write", "rag.config.json")
    /\ manifest.vectorDb <=> Has("write", "vector.config.json")

\* C3: with a port given on the command line, the manifest's runtime.port is
\* that port and getPort() was not called for the UI port.
C3_CliPortInManifest ==
  (manifest.written /\ options.port.t = "string") =>
    /\ manifest.port = parseInt(options.port.s)
    /\ ~Has("probe", "ui")

\* C4: when the runtime is not installed or its service is not reachable, the
\* process has exited with status 1, no later stage has had any effect
\* (no model.gguf, agent, manifest or script write) and no archive exists.
C4_RuntimeUnavailableAborts ==
  RuntimeUnavailable =>
    /\ pc = "exited" /\ exitCode = 1
    /\ \A i \in 1 .. Len(log) :
         log[i].k \notin {"write", "chmod", "probe", "open", "finalize", "listen"}
    /\ workspace \subseteq {"."}
    /\ ~manifest.written
    /\ archive.state = "absent"
    /\ server.state = "none"

C4_Witness == Has("rtfail", "list") /\ pc = "exited" /\ ~IsMock

\* C5: when the resolved mock flag is true, or LLAMAFARM_MOCK is 'true'
\* whatever the flag, no runtime operation (which, list, show, pull) is
\* ever invoked.
C5_MockNeverCallsRuntime ==
  ((pc # "start" /\ Truthy(config.mock)) \/ envMock = "true") => ~HasKind("rt")

C5_Witness ==
  /\ envMock = "true" /\ ~Truthy(config.mock)
  /\ Has("write", "model.gguf") /\ Has("listen", "download")

\* C6: in mock mode, for every combination of rag, database and port, the
\* pipeline eventually reports the packaging stage successful on a complete
\* archive, unless a file-system call, a port probe or the archive stream
\* fails on the way.
C6_MockReachesPackaging ==
  (pc = "prepare" /\ IsMock) ~> (Packaged \/ Faulted)

C6_Witness == IsMock /\ Packaged /\ ~Faulted /\ RagEnabled /\ port = JsNaN

\* C7: after a fatal error is raised, control is in the catch block or the
\* process has exited, with status 1; no effect of a later stage follows it.
C7_FatalErrorStops ==
  /\ \A i \in 1 .. Len(log) : \A j \in (i + 1) .. Len(log) :
       FatalAt(i) => log[j].k \notin SideEffectKinds
  /\ error \in {"EnvironmentError", "ModelResolutionError", "IOError", "PackagingError"}
       => /\ pc \in {"catch", "exited"}
          /\ pc = "exited" => exitCode = 1

\* C8: every fatal error, of every class, leads to the catch block or to an
\* exit, and the exit follows an error message and has status 1.
C8_EveryFatalPathPrintsAndExits ==
  error # "none" =>
    /\ pc \in {"catch", "exited"}
    /\ pc = "exited" => (Has("print", "error") /\ exitCode = 1)

\* C9: when loading the configuration file fails, nothing has been done: the
\* working directory is not created, no file is written, no runtime call is
\* made, no archive exists and no server is started.
C9_ConfigErrorNoSideEffect ==
  error = "ConfigError" =>
    /\ NoSideEffect
    /\ workspace = {}
    /\ ~manifest.written
    /\ archive.state = "absent"
    /\ server.state = "none"

C9_Witness == error = "ConfigError" /\ pc = "rejected"

\* C10: the packaging success label and the start of the download server
\* come only after the output stream's close event.
C10_SuccessOnlyAfterClose ==
  /\ Precedes(Ev("close", "output"), Ev("succeed", "package"))
  /\ Precedes(Ev("close", "output"), Ev("listen", "download"))

C10_Witness ==
  /\ Has("finalize", "archive") /\ Has("succeed", "package")
  /\ Has("listen", "download")


\* a stream-level error was raised while the archive was being written
StreamError == Has("raise", "archive") \/ Has("raise", "output")

\* C11: after a stream-level error of the archiver or of the output file
\* stream, the awaited packaging step is rejected (control is in the catch
\* block or past it), packaging is not reported successful, the download
\* server is not started, the exit follows the failure message and has
\* status 1, and the partial archive file stays in place.
C11_StreamErrorAborts ==
  StreamError =>
    /\ pc \in {"catch", "exited"}
    /\ ~Has("succeed", "package")
    /\ ~Has("listen", "download")
    /\ pc = "exited" => (Has("fail", "Planting failed") /\ exitCode = 1)
    /\ archive.state = "partial"


\* C12: the top-level entries of a completed archive are exactly the
\* top-level files and directories of the working directory, each stored at
\* the archive root.
C12_ArchiveRoundTrip ==
  archive.state = "complete" =>
    /\ {TopLevelOf(e) : e \in archive.entries} = workspace \ {"."}
    /\ \A e \in archive.entries : e.dir = ""

C12_Witness ==
  /\ archive.state = "complete"
  /\ {"model.gguf", "manifest.json", "chroma_db", "build.sh"} \subseteq workspace
  /\ "rag.config.json" \notin workspace


\* number of times server.close() has run
Closes == Cardinality({i \in 1 .. Len(log) : log[i] = Ev("shutdown", "download")})

\* C13: the download server listens only after a successful package step (a
\* complete archive, reported successful), keeps listening whatever the
\* number of downloads served while the timer is armed, and is closed by the
\* timer, once; a closed server serves nothing more.
C13_ServerLifecycle ==
  /\ Has("listen", "download") =>
       /\ archive.state = "complete"
       /\ Precedes(Ev("succeed", "package"), Ev("listen", "download"))
  /\ server.timer = "armed" => server.state = "listening"
  /\ server.state = "closed" <=> server.timer = "fired"
  /\ Closes = (IF server.state = "closed" THEN 1 ELSE 0)

\* C14: while the download server listens the archive file is not being
\* written, and every download served is of the complete archive the
\* packaging stage produced.
C14_ServedArchiveComplete ==
  /\ server.state = "listening" => archive.state # "writing"
  /\ server.downloads > 0 =>
       /\ archive.state = "complete"
       /\ {TopLevelOf(e) : e \in archive.entries} = workspace \ {"."}


----------------------------------------------------------------------------
(* Repeated invocations on the same model id: the working directory        *)
(* .llamafarm/<model> and the archive file of an earlier invocation are    *)
(* still there when plantCommand runs again                                *)

\* the command lines of the repeated runs
RunOptions == {o \in CliOptions : o.port # JsUndef \/ ~Truthy(o.mock)}

InitRuns ==
  /\ Init
  /\ options \in RunOptions
  /\ yamlFile \in {NoFile, BadFile}
  /\ envMock = ""

\* after a completed invocation a new process runs plantCommand for the same
\* model: ensureDir (line 67) finds the directory and leaves its entries in
\* place
Reinvoke ==
  /\ pc = "exited"
  /\ exitCode = 0
  /\ options' \in RunOptions
  /\ yamlFile' \in {NoFile, BadFile}
  /\ (options'.config = Absent) <=> (yamlFile' = NoFile)
  /\ config' = options'
  /\ pc' = "start"
  /\ port' = JsUndef
  /\ manifest' = NoManifest
  /\ server' = [state |-> "none", port |-> 0, timer |-> "unset", downloads |-> 0]
  /\ error' = "none"
  /\ exitCode' = -1
  /\ log' = <<>>
  /\ UNCHANGED <<envMock, workspace, archive>>

NextRuns == Next \/ Reinvoke

SpecRuns == InitRuns /\ [][NextRuns]_vars

\* names of the entries stored in the archive
ArchiveNames == {e.name : e \in archive.entries}

\* C15: after a completed invocation, rag.config.json is in the working
\* directory and in the archive only if this invocation's rag is enabled,
\* and vector.config.json and chroma_db only if its database is vector or
\* its rag is enabled.
C15_OnlyEnabledConfigsPresent ==
  (pc = "exited" /\ exitCode = 0) =>
    /\ "rag.config.json" \in (workspace \cup ArchiveNames) => RagEnabled
    /\ "vector.config.json" \in (workspace \cup ArchiveNames) => VectorEnabled
    /\ "chroma_db" \in (workspace \cup ArchiveNames) => VectorEnabled


----------------------------------------------------------------------------

\* the stage of a spinner label
LabelStage(a) ==
  CASE a = "field" -> 1
    [] a \in {"model", "model-mock", "model-found", "model-downloaded"} -> 2
    [] a = "agent" -> 3
    [] a = "vector" -> 4
    [] a = "rag" -> 5
    [] a = "ui" -> 6
    [] a = "bundle" -> 7
    [] a = "package" -> 8

\* the stage that writes an entry of the working directory
FileStage(a) ==
  CASE a = "." -> 1
    [] a = "model.gguf" -> 2
    [] a \in {"agent.config.json", "agent-server.js"} -> 3
    [] a \in {"vector.config.json", "chroma_db"} -> 4
    [] a = "rag.config.json" -> 5
    [] a = "index.html" -> 6
    [] a \in {"manifest.json", "start.sh"} -> 7
    [] a \in {"Dockerfile", "build.sh"} -> 8

\* the stage an effect belongs to: 1 prepare workspace, 2 provision model,
\* 3 agent config, 4 vector config, 5 RAG config, 6 UI asset, 7 manifest and
\* start script, 8 package, 9 serve; 0 for the failure report
StageOf(ev) ==
  CASE ev.k \in {"fail", "raise", "uncaught", "exit"} -> 0
    [] ev.k = "print" -> IF ev.a = "url" THEN 9 ELSE 0
    [] ev.k \in {"rt", "rtfail"} -> 2
    [] ev.k \in {"open", "finalize", "close"} -> 8
    [] ev.k \in {"listen", "shutdown"} -> 9
    [] ev.k = "probe" -> IF ev.a = "ui" THEN 6 ELSE 9
    [] ev.k \in {"start", "succeed"} -> LabelStage(ev.a)
    [] ev.k \in {"mkdir", "write", "chmod"} -> FileStage(ev.a)

\* the files every invocation generates
AlwaysWritten ==
  {"model.gguf", "agent.config.json", "agent-server.js", "index.html",
   "manifest.json", "start.sh", "build.sh", "Dockerfile"}

\* C16: the effects of an invocation occur in stage order (prepare, model,
\* agent, vector/RAG, UI, manifest and scripts, package, serve), no effect of
\* a stage follows one of a later stage, and when the archive is created every
\* generated file has been written and made executable where that applies.
C16_StagesInOrder ==
  LET Staged(ev) == StageOf(ev) # 0
      effects == SelectSeq(log, Staged)
      IsOpen(ev) == ev = Ev("open", "output")
      IsFsCall(ev) == ev.k \in {"write", "chmod", "mkdir"}
      fsCalls == SelectSeq(log, IsFsCall)
      before == {fsCalls[i] : i \in 1 .. Len(fsCalls)}
      openAt == CHOOSE i \in 1 .. Len(log) : IsOpen(log[i])
  IN /\ \A i \in 1 .. (Len(effects) - 1) :
          StageOf(effects[i]) <= StageOf(effects[i + 1])
     /\ Len(SelectSeq(log, IsOpen)) > 0 =>
          /\ \A f \in AlwaysWritten : Ev("write", f) \in before
          /\ Ev("chmod", "start.sh") \in before
          /\ Ev("chmod", "build.sh") \in before
          /\ VectorEnabled => Ev("write", "vector.config.json") \in before
          /\ RagEnabled => Ev("write", "rag.config.json") \in before
          /\ Len(SelectSeq(SubSeq(log, openAt + 1, Len(log)), IsFsCall)) = 0

C16_Witness ==
  /\ Has("listen", "download") /\ Has("rt", "pull")
  /\ Has("write", "rag.config.json") /\ Has("probe", "ui")


----------------------------------------------------------------------------

\* the calls made to the model runtime, in order
RuntimeCalls ==
  LET IsCall(ev) == ev.k = "rt" IN SelectSeq(log, IsCall)

\* the order in which the non-mock branch consults the runtime
ProvisionOrder == <<Ev("rt", "which"), Ev("rt", "list"), Ev("rt", "show"), Ev("rt", "pull")>>

\* C17: without mock mode the runtime is asked, in this order and each at most
\* once, whether it is installed, whether it is running and whether it holds
\* the model; the model is pulled only after the presence check answered
\* "absent"; model.gguf is written only after the model was found or the pull
\* succeeded; a failed pull ends the invocation with exit status 1 and no
\* model.gguf.
C17_PullOnlyWhenAbsent ==
  /\ Len(RuntimeCalls) <= Len(ProvisionOrder)
  /\ RuntimeCalls = SubSeq(ProvisionOrder, 1, Len(RuntimeCalls))
  /\ Precedes(Ev("rtfail", "show"), Ev("rt", "pull"))
  /\ (Len(RuntimeCalls) > 0 /\ Has("write", "model.gguf")) =>
       \/ /\ ~Has("rtfail", "show")
          /\ Precedes(Ev("rt", "show"), Ev("write", "model.gguf"))
       \/ /\ ~Has("rtfail", "pull")
          /\ Precedes(Ev("rt", "pull"), Ev("write", "model.gguf"))
  /\ Has("rtfail", "pull") =>
       /\ pc = "exited"
       /\ exitCode = 1
       /\ error = "ModelResolutionError"
       /\ ~Has("write", "model.gguf")
       /\ "model.gguf" \notin workspace

\* the model was absent, was pulled, and its placeholder was written
C17_Witness ==
  /\ Has("rtfail", "show")
  /\ Has("succeed", "model-downloaded")
  /\ Has("write", "model.gguf")


----------------------------------------------------------------------------

\* the positions of plantCommand up to the end of model provisioning, and
\* the positions after the invocation stopped
ProvisioningPcs ==
  {"start", "prepare", "mockWrite", "checkInstalled", "checkRunning", "show",
   "pull", "exportModel"}

StoppedPcs == {"catch", "exited", "rejected"}

\* C18: once any stage after model provisioning has started (agent, vector,
\* RAG, UI, manifest and scripts, package, serve), this invocation has already
\* written model.gguf into the workspace, with or without mock mode.
C18_ModelBeforeLaterStages ==
  LET Later(ev) == StageOf(ev) >= 3
      later == SelectSeq(log, Later)
  IN /\ Len(later) > 0 =>
          /\ "model.gguf" \in workspace
          /\ Has("write", "model.gguf")
          /\ Precedes(Ev("write", "model.gguf"), later[1])
     /\ pc \notin (ProvisioningPcs \cup StoppedPcs) =>
          /\ "model.gguf" \in workspace
          /\ Has("write", "model.gguf")

\* the agent stage has started on the path that consults the runtime
C18_Witness ==
  /\ Has("rt", "show")
  /\ Has("start", "agent")
  /\ pc = "agentServer"


----------------------------------------------------------------------------

\* v is a number, or text made of decimal digits only
NumericPort(v) ==
  \/ v.t = "number"
  \/ v.t = "string" /\ Len(v.s) > 0 /\ LeadingDigits(v.s) = Len(v.s)

\* the number a numeric port stands for
NumericValue(v) ==
  IF v.t = "number" THEN v ELSE JsNum(DecimalValue(v.s, Len(v.s)))

\* C19: once the port is resolved, a numeric or numeric-text port of the
\* configuration is used as that number without a probe, every other
\* configured value (none, or text such as 'auto') is replaced by a probed
\* free port, and the port given to the UI and the manifest is a number.
C19_PortResolution ==
  /\ port # JsUndef =>
       /\ port.t = "number"
       /\ NumericPort(config.port) =>
            (port = NumericValue(config.port) /\ ~Has("probe", "ui"))
       /\ ~NumericPort(config.port) =>
            (Has("probe", "ui") /\ port.n \in FreePorts)
  /\ manifest.written => manifest.port.t = "number"


----------------------------------------------------------------------------

\* the stages that report progress: 1 prepare workspace to 8 package
ReportedStages == 1 .. 8

\* the progress labels and effects of the reported stages, in log order
StagedLog ==
  LET Staged(ev) == StageOf(ev) \in ReportedStages IN SelectSeq(log, Staged)

\* in StagedLog, position i opens its stage with the start label, and a
\* success label is the last entry of its stage
LabelsBracket(s, i) ==
  /\ (i = 1 \/ StageOf(s[i - 1]) # StageOf(s[i])) => s[i].k = "start"
  /\ (s[i].k = "succeed" /\ i < Len(s)) => StageOf(s[i + 1]) # StageOf(s[i])

\* C20: every stage reports its start label before its first effect and its
\* success label once, after its last effect; the model stage reports success
\* only after model.gguf is written.
C20_LabelsBracketEffects ==
  /\ \A i \in 1 .. Len(StagedLog) : LabelsBracket(StagedLog, i)
  /\ \A l \in {"model", "model-mock", "model-found", "model-downloaded"} :
       Precedes(Ev("write", "model.gguf"), Ev("succeed", l))

====
